---- MODULE Spec2Model ----
(***************************************************************************)
(* Device Tracking API (server.js, coordinate.js): the trigger tracker     *)
(* `deviceStates`, the four request handlers behind the API-key            *)
(* middleware, the periodic cleanup timer and the Coordinate collection.   *)
(*                                                                         *)
(* Time is Date.now() in milliseconds.  Strings that the code inspects     *)
(* character by character (request paths, device identifiers) are          *)
(* sequences of one-character strings, so that startsWith and includes are *)
(* computed as JavaScript computes them.                                   *)
(*                                                                         *)
(* The event loop runs one callback at a time.  A step runs one callback   *)
(* to its return or to its await; `running` names it, `res` is the         *)
(* response it sent, and Turn hands control back to the loop.  A handler   *)
(* that awaits the store is two callbacks: the part up to the await, which *)
(* leaves an entry in `pending` holding the deviceState object it read,    *)
(* and the continuation that runs when the store operation settles, with   *)
(* success or failure.  The cleanup timer may fire at any turn once its    *)
(* first interval has passed.                                              *)
(*                                                                         *)
(* `unswept` is a history variable: the table as it would be if the        *)
(* cleanup never deleted anything.  No callback reads it.                  *)
(*                                                                         *)
(* Spec starts where the server starts to listen.  BootSpec starts at the  *)
(* start of the process and runs connectDB first; `boot` holds its         *)
(* progress and is constant once the server listens.  LiveSpec adds a      *)
(* later instant and the fairness of the cleanup timer.                    *)
(***************************************************************************)
EXTENDS Integers, Sequences, FiniteSets, TLC

\* ---------------------------------------------------------------- bounds
MaxRecords == 2
MaxPending == 1

\* ------------------------------------------------------ program constants
TriggerWindow == 30000000
TriggerExpiresIn == 30000000
SweepInterval == 60000
MaxAbsLatitude == 90
MaxAbsLongitude == 180
ConnectRetries == 5
ConnectInterval == 5000

VARIABLES
    now,            \* Date.now()
    deviceStates,   \* the Map deviceId -> {triggered, expires, lastActive}
    store,          \* the Coordinate collection, in insertion order
    pending,        \* handlers suspended at their await of the store
    running,        \* the callback of the current event-loop turn, "idle" between turns
    res,            \* the HTTP response that callback sent, NoRes if none
    cleanedCount,   \* the cleanup callback's local counter
    unswept,        \* history: deviceStates as it would be had cleanup never run
    boot            \* the startup: connectDB's progress, then listening

vars == <<now, running, deviceStates, store, pending, res, cleanedCount, unswept, boot>>

\* ------------------------------------------------------------ strings
StartsWith(s, p) == Len(s) >= Len(p) /\ SubSeq(s, 1, Len(p)) = p

Includes(s, p) == \E i \in 1..(Len(s) - Len(p) + 1) : SubSeq(s, i, i + Len(p) - 1) = p

ApiPrefix == <<"/", "a", "p", "i">>

StatusNeedle == <<"/", "s", "t", "a", "t", "u", "s">>

TriggerPath == <<"/", "a", "p", "i", "/", "d", "e", "v", "i", "c", "e", "/", "t", "r", "i", "g", "g", "e", "r">>

DataPath == <<"/", "a", "p", "i", "/", "d", "e", "v", "i", "c", "e", "/", "d", "a", "t", "a">>

StatusPrefix == <<"/", "a", "p", "i", "/", "d", "e", "v", "i", "c", "e", "/", "s", "t", "a", "t", "u", "s", "/">>

ListPrefix == DataPath \o <<"/">>

StatusPath(d) == StatusPrefix \o d

ListPath(d) == ListPrefix \o d

\* req.params.deviceId: what follows the route's fixed part
Param(path, prefix) == SubSeq(path, Len(prefix) + 1, Len(path))

HealthPath == <<"/", "h", "e", "a", "l", "t", "h">>

\* ------------------------------------------------------------- inputs
DevA == <<"d", "1">>

DevStatus == <<"s", "t", "a", "t", "u", "s">>

DeviceIds == {DevA, DevStatus}

ApiKey == "process.env.API_KEY"

WrongKey == "wrong"

AbsentKey == "undefined"

\* the instants at which the clock is read: start, a millisecond later, one window after that
Instants == {0, 1, TriggerWindow + 1}

EmptyBody == [f \in {} |-> 0]

Has(body, f) == f \in DOMAIN body

\* the requests sent to each route: <<x-api-key, JSON body or :deviceId>>
TriggerRequests ==
    {<<ApiKey, EmptyBody>>, <<WrongKey, [deviceId |-> DevA]>>}
    \cup {<<ApiKey, [deviceId |-> d]>> : d \in DeviceIds}

SubmitBodies ==
    {[deviceId |-> d, latitude |-> 90, longitude |-> -180] : d \in DeviceIds}
    \cup {[deviceId |-> DevA, latitude |-> -91, longitude |-> 20],
          [deviceId |-> DevStatus, latitude |-> 10, longitude |-> 181],
          [latitude |-> 10, longitude |-> 20],
          [deviceId |-> DevA, latitude |-> 10]}

SubmitRequests ==
    {<<ApiKey, body>> : body \in SubmitBodies}
    \cup {<<WrongKey, [deviceId |-> DevA, latitude |-> 90, longitude |-> -180]>>,
          <<AbsentKey, [deviceId |-> DevStatus, latitude |-> 90, longitude |-> -180]>>}

StatusRequests == {<<ApiKey, DevA>>, <<AbsentKey, DevA>>, <<WrongKey, DevStatus>>}

ListRequests == {<<ApiKey, DevA>>, <<WrongKey, DevA>>, <<ApiKey, DevStatus>>, <<AbsentKey, DevStatus>>}

HealthRequests == {AbsentKey}

Request(route, path, key, body) == [route |-> route, path |-> path, key |-> key, body |-> body]

Response(req, status, body) == [req |-> req, status |-> status, body |-> body]

NoRes == Response(Request("none", <<>>, AbsentKey, EmptyBody), 0, EmptyBody)

\* ------------------------------------------------- security middleware
RequiresKey(path) == StartsWith(path, ApiPrefix) /\ ~Includes(path, StatusNeedle)

\* mutant: a request without the header is let through
UnauthorizedWhenPresent(req) == RequiresKey(req.path) /\ req.key # ApiKey /\ req.key # AbsentKey

Unauthorized(req) == RequiresKey(req.path) /\ req.key # ApiKey

UnauthorizedBody == [error |-> "Unauthorized: Invalid API key"]

\* ------------------------------------------------------ trigger tracker
NewState(t) == [triggered |-> TRUE, expires |-> t + TriggerWindow, lastActive |-> t]

\* mutant: a re-trigger adds the window to what is left of the previous one
ActivateAdditive(states, d, t) ==
    [x \in (DOMAIN states) \cup {d} |->
        IF x = d
        THEN [triggered |-> TRUE,
              expires |-> (IF d \in DOMAIN states /\ states[d].expires > t
                           THEN states[d].expires ELSE t) + TriggerWindow,
              lastActive |-> t]
        ELSE states[x]]

Activate(states, d, t) ==
    [x \in (DOMAIN states) \cup {d} |-> IF x = d THEN NewState(t) ELSE states[x]]

\* mutant: the submit guard looks at the triggered flag only
SubmitNotActiveNoExpiry(states, d, t) ==
    ~(d \in DOMAIN states /\ states[d].triggered)

\* the guard of the 403 answer of POST /api/device/data
SubmitNotActive(states, d, t) ==
    ~(d \in DOMAIN states /\ states[d].triggered) \/ states[d].expires < t

\* the guard of the 403 answer of GET /api/device/data/:deviceId
ListNotActive(states, d, t) ==
    ~(d \in DOMAIN states /\ states[d].triggered) \/ states[d].expires < t

\* isActive of GET /api/device/status/:deviceId
IsActive(state, t) == state.triggered /\ state.expires > t

\* mutant: the unknown-device answer carries the fields of the known-device answer
StatusBodyUniform(states, d, t) ==
    IF d \notin DOMAIN states
    THEN [triggered |-> FALSE, expiresIn |-> 0, lastActive |-> 0, code |-> "DEVICE_INACTIVE"]
    ELSE [triggered |-> IsActive(states[d], t),
          expiresIn |-> IF IsActive(states[d], t) THEN states[d].expires - t ELSE 0,
          lastActive |-> states[d].lastActive,
          code |-> IF IsActive(states[d], t) THEN "DEVICE_ACTIVE" ELSE "DEVICE_EXPIRED"]

StatusBody(states, d, t) ==
    IF d \notin DOMAIN states
    THEN [triggered |-> FALSE, message |-> "Device not triggered", code |-> "DEVICE_INACTIVE"]
    ELSE [triggered |-> IsActive(states[d], t),
          expiresIn |-> IF IsActive(states[d], t) THEN states[d].expires - t ELSE 0,
          lastActive |-> states[d].lastActive,
          code |-> IF IsActive(states[d], t) THEN "DEVICE_ACTIVE" ELSE "DEVICE_EXPIRED"]

Touch(states, d, t) == [states EXCEPT ![d].lastActive = t]

\* mutant: the cleanup also deletes the entry that expires at this very instant
SweepDeletesAtExpiry(state, t) == state.expires <= t

\* mutant: the cleanup comparison is inverted
SweepDeletesLive(state, t) == state.expires > t

\* the cleanup loop: which entries it deletes, what is left, and its counter
SweepDeletes(state, t) == state.expires < t

Swept(states, t) == [x \in {y \in DOMAIN states : ~SweepDeletes(states[y], t)} |-> states[x]]

CountCleaned(states, t) == Cardinality({y \in DOMAIN states : SweepDeletes(states[y], t)})

\* ------------------------------------------------------------- handlers
Abs(x) == IF x < 0 THEN -x ELSE x

MissingInput(body) == ~Has(body, "deviceId") \/ ~Has(body, "latitude") \/ ~Has(body, "longitude")

\* mutant: the range check forgets Math.abs
InvalidCoordinatesNoAbs(latitude, longitude) ==
    latitude > MaxAbsLatitude \/ longitude > MaxAbsLongitude

InvalidCoordinates(latitude, longitude) ==
    Abs(latitude) > MaxAbsLatitude \/ Abs(longitude) > MaxAbsLongitude

NotActiveBody ==
    [error |-> "Device not triggered or trigger expired", code |-> "DEVICE_NOT_ACTIVE",
     solution |-> "Send trigger request first"]

\* mutant: latitude and longitude are swapped in the document
NewCoordinateSwapped(body, t) ==
    [latitude |-> body.longitude, longitude |-> body.latitude,
     deviceId |-> body.deviceId, timestamp |-> t]

NewCoordinate(body, t) ==
    [latitude |-> body.latitude, longitude |-> body.longitude,
     deviceId |-> body.deviceId, timestamp |-> t]

\* savedCoordinate.toJSON() spread with remainingTime
SavedBody(doc, remainingTime) ==
    [latitude |-> doc.latitude, longitude |-> doc.longitude, deviceId |-> doc.deviceId,
     timestamp |-> doc.timestamp, remainingTime |-> remainingTime]

\* Coordinate.find({ deviceId }): the stored documents of that device
Find(coll, d) == SelectSeq(coll, LAMBDA r : r.deviceId = d)

Orderings(s) ==
    {[i \in 1..Len(s) |-> s[f[i]]] :
        f \in {g \in [1..Len(s) -> 1..Len(s)] : \A a, b \in 1..Len(s) : a # b => g[a] # g[b]}}

\* mutant: the query sorts by timestamp ascending
TimestampAscending(s) == \A i \in 1..(Len(s) - 1) : s[i].timestamp <= s[i + 1].timestamp

TimestampDescending(s) == \A i \in 1..(Len(s) - 1) : s[i].timestamp >= s[i + 1].timestamp

\* .sort({ timestamp: -1 }): any order of the found documents with timestamps descending
FindSorted(coll, d) == {s \in Orderings(Find(coll, d)) : TimestampDescending(s)}

PendingSubmits == Cardinality({i \in 1..Len(pending) : pending[i].req.route = "submit"})

Remove(s, i) == SubSeq(s, 1, i - 1) \o SubSeq(s, i + 1, Len(s))

\* ---------------------------------------------------------------- startup
\* connectDB is called with its defaults; `attempts` and `waited` count the
\* connection attempts made and the milliseconds slept between them
Starting ==
    [phase |-> "connecting", connected |-> FALSE, retries |-> ConnectRetries,
     attempts |-> 0, waited |-> 0]

\* connectDB has returned and app.listen was called: its frame is gone
Serving ==
    [phase |-> "listening", connected |-> TRUE, retries |-> ConnectRetries,
     attempts |-> 0, waited |-> 0]

\* mutant: the last retry is never made
RetriesLeftOffByOne(retries) == retries > 1

\* the catch block's test before it sleeps and calls connectDB again
RetriesLeft(retries) == retries > 0

\* the server accepts requests, and the event loop runs one callback at a
\* time: none is running
Idle == running = "idle" /\ boot.phase = "listening"

\* the state in which the server starts to listen
Init ==
    /\ now = 0
    /\ running = "idle"
    /\ deviceStates = EmptyBody
    /\ store = <<>>
    /\ pending = <<>>
    /\ res = NoRes
    /\ cleanedCount = 0
    /\ unswept = EmptyBody
    /\ boot = Serving

\* the callback that ran returns: its response is on the wire, its locals are gone
Turn ==
    /\ running # "idle"
    /\ running' = "idle"
    /\ res' = NoRes
    /\ cleanedCount' = 0
    /\ UNCHANGED <<now, deviceStates, store, pending, unswept, boot>>

\* the clock moves on while no callback runs
Advance(t) ==
    /\ Idle
    /\ t > now
    /\ now' = t
    /\ UNCHANGED <<running, deviceStates, store, pending, res, cleanedCount, unswept, boot>>

\* POST /api/device/trigger
Trigger(key, body) ==
    LET req == Request("trigger", TriggerPath, key, body) IN
    /\ Idle
    /\ running' = "trigger"
    /\ UNCHANGED <<now, store, pending, cleanedCount, boot>>
    /\ IF Unauthorized(req)
       THEN /\ res' = Response(req, 401, UnauthorizedBody)
            /\ UNCHANGED <<deviceStates, unswept>>
       ELSE IF ~Has(body, "deviceId")
       THEN /\ res' = Response(req, 400,
                        [error |-> "Device ID is required", code |-> "DEVICE_ID_REQUIRED"])
            /\ UNCHANGED <<deviceStates, unswept>>
       ELSE /\ deviceStates' = Activate(deviceStates, body.deviceId, now)
            /\ unswept' = Activate(unswept, body.deviceId, now)
            /\ res' = Response(req, 200,
                        [message |-> "Device triggered successfully", status |-> "active",
                         expiresIn |-> TriggerExpiresIn])

\* mutant: the status handler drops the entries that have expired as it answers
StatusEvicting(key, d) ==
    LET req == Request("status", StatusPath(d), key, EmptyBody) IN
    /\ Idle
    /\ running' = "status"
    /\ deviceStates' = Swept(deviceStates, now)
    /\ UNCHANGED <<now, store, pending, cleanedCount, unswept, boot>>
    /\ IF Unauthorized(req)
       THEN res' = Response(req, 401, UnauthorizedBody)
       ELSE res' = Response(req, 200, StatusBody(deviceStates, Param(req.path, StatusPrefix), now))

\* GET /api/device/status/:deviceId
Status(key, d) ==
    LET req == Request("status", StatusPath(d), key, EmptyBody) IN
    /\ Idle
    /\ running' = "status"
    /\ UNCHANGED <<now, deviceStates, store, pending, cleanedCount, unswept, boot>>
    /\ IF Unauthorized(req)
       THEN res' = Response(req, 401, UnauthorizedBody)
       ELSE res' = Response(req, 200, StatusBody(deviceStates, Param(req.path, StatusPrefix), now))

\* GET /health
Health(key) ==
    LET req == Request("health", HealthPath, key, EmptyBody) IN
    /\ Idle
    /\ running' = "health"
    /\ UNCHANGED <<now, deviceStates, store, pending, cleanedCount, unswept, boot>>
    /\ IF Unauthorized(req)
       THEN res' = Response(req, 401, UnauthorizedBody)
       ELSE res' = Response(req, 200, [status |-> "healthy", timestamp |-> now])

\* POST /api/device/data up to `await newCoordinate.save()`
Submit(key, body) ==
    LET req == Request("submit", DataPath, key, body) IN
    /\ Idle
    /\ running' = "submit"
    /\ UNCHANGED <<now, store, cleanedCount, boot>>
    /\ IF Unauthorized(req)
       THEN /\ res' = Response(req, 401, UnauthorizedBody)
            /\ UNCHANGED <<deviceStates, pending, unswept>>
       ELSE IF MissingInput(body)
       THEN /\ res' = Response(req, 400,
                        [error |-> "Device ID, latitude and longitude are required",
                         code |-> "INVALID_INPUT"])
            /\ UNCHANGED <<deviceStates, pending, unswept>>
       ELSE IF InvalidCoordinates(body.latitude, body.longitude)
       THEN /\ res' = Response(req, 400,
                        [error |-> "Invalid coordinates", code |-> "INVALID_COORDINATES"])
            /\ UNCHANGED <<deviceStates, pending, unswept>>
       ELSE IF SubmitNotActive(deviceStates, body.deviceId, now)
       THEN /\ res' = Response(req, 403, NotActiveBody)
            /\ UNCHANGED <<deviceStates, pending, unswept>>
       ELSE /\ Len(pending) < MaxPending
            /\ Len(store) + PendingSubmits < MaxRecords
            /\ deviceStates' = Touch(deviceStates, body.deviceId, now)
            /\ unswept' = Touch(unswept, body.deviceId, now)
            /\ pending' = Append(pending,
                            [req |-> req, deviceId |-> body.deviceId,
                             expires |-> deviceStates[body.deviceId].expires,
                             doc |-> NewCoordinate(body, now)])
            /\ res' = NoRes

\* the continuation of POST /api/device/data once save() has settled
SubmitSettled(i, saved) ==
    /\ Idle
    /\ i \in 1..Len(pending)
    /\ pending[i].req.route = "submit"
    /\ running' = "submitSettled"
    /\ pending' = Remove(pending, i)
    /\ UNCHANGED <<now, deviceStates, cleanedCount, unswept, boot>>
    /\ IF saved
       THEN /\ store' = Append(store, pending[i].doc)
            /\ res' = Response(pending[i].req, 201,
                        SavedBody(pending[i].doc, pending[i].expires - now))
       ELSE /\ store' = store
            /\ res' = Response(pending[i].req, 500,
                        [error |-> "save failed", code |-> "DATABASE_ERROR"])

\* GET /api/device/data/:deviceId up to `await Coordinate.find(...)`
List(key, d) ==
    LET req == Request("list", ListPath(d), key, EmptyBody)
        deviceId == Param(req.path, ListPrefix)
    IN
    /\ Idle
    /\ running' = "list"
    /\ UNCHANGED <<now, deviceStates, store, cleanedCount, unswept, boot>>
    /\ IF Unauthorized(req)
       THEN /\ res' = Response(req, 401, UnauthorizedBody)
            /\ UNCHANGED pending
       ELSE IF ListNotActive(deviceStates, deviceId, now)
       THEN /\ res' = Response(req, 403, NotActiveBody)
            /\ UNCHANGED pending
       ELSE /\ Len(pending) < MaxPending
            /\ pending' = Append(pending,
                            [req |-> req, deviceId |-> deviceId,
                             expires |-> deviceStates[deviceId].expires,
                             doc |-> EmptyBody])
            /\ res' = NoRes

\* the continuation of GET /api/device/data/:deviceId once the query has settled
ListSettled(i, found) ==
    /\ Idle
    /\ i \in 1..Len(pending)
    /\ pending[i].req.route = "list"
    /\ running' = "listSettled"
    /\ pending' = Remove(pending, i)
    /\ UNCHANGED <<now, deviceStates, store, cleanedCount, unswept, boot>>
    /\ IF ~found
       THEN res' = Response(pending[i].req, 500,
                        [error |-> "find failed", code |-> "DATABASE_ERROR"])
       ELSE \E coordinates \in FindSorted(store, pending[i].deviceId) :
              IF Len(coordinates) = 0
              THEN res' = Response(pending[i].req, 404,
                             [message |-> "No data found for this device", code |-> "NO_DATA"])
              ELSE res' = Response(pending[i].req, 200,
                             [deviceId |-> pending[i].deviceId,
                              count |-> Len(coordinates),
                              coordinates |-> coordinates,
                              remainingTime |-> pending[i].expires - now])

\* the setInterval cleanup callback
Sweep ==
    /\ Idle
    /\ now >= SweepInterval
    /\ running' = "cleanup"
    /\ deviceStates' = Swept(deviceStates, now)
    /\ cleanedCount' = CountCleaned(deviceStates, now)
    /\ UNCHANGED <<now, store, pending, res, unswept, boot>>

Next ==
    \/ \E t \in Instants : Advance(t)
    \/ \E r \in TriggerRequests : Trigger(r[1], r[2])
    \/ \E r \in SubmitRequests : Submit(r[1], r[2])
    \/ \E i \in 1..MaxPending, saved \in BOOLEAN : SubmitSettled(i, saved)
    \/ \E r \in StatusRequests : Status(r[1], r[2])
    \/ \E r \in ListRequests : List(r[1], r[2])
    \/ \E i \in 1..MaxPending, found \in BOOLEAN : ListSettled(i, found)
    \/ \E key \in HealthRequests : Health(key)
    \/ Sweep
    \/ Turn

Spec == Init /\ [][Next]_vars

\* ------------------------------------------------ the process from its start
BootInit ==
    /\ now = 0
    /\ running = "idle"
    /\ deviceStates = EmptyBody
    /\ store = <<>>
    /\ pending = <<>>
    /\ res = NoRes
    /\ cleanedCount = 0
    /\ unswept = EmptyBody
    /\ boot = Starting

\* one mongoose.connect settles: connectDB returns, or sleeps before the next
\* attempt, or ends the process
ConnectDB(ok) ==
    /\ boot.phase = "connecting"
    /\ boot' = [boot EXCEPT !.attempts = @ + 1,
                            !.connected = ok,
                            !.phase = IF ok THEN "connected"
                                      ELSE IF RetriesLeft(boot.retries) THEN "waiting"
                                      ELSE "exited"]
    /\ UNCHANGED <<now, running, deviceStates, store, pending, res, cleanedCount, unswept>>

\* the setTimeout of the catch block fires: connectDB(retries - 1, interval)
RetryTimer ==
    /\ boot.phase = "waiting"
    /\ boot' = [boot EXCEPT !.phase = "connecting", !.retries = @ - 1,
                            !.waited = @ + ConnectInterval]
    /\ UNCHANGED <<now, running, deviceStates, store, pending, res, cleanedCount, unswept>>

\* await connectDB() is over: the routes and the cleanup timer are set up and
\* app.listen is called
Listen ==
    /\ boot.phase = "connected"
    /\ boot' = Serving
    /\ UNCHANGED <<now, running, deviceStates, store, pending, res, cleanedCount, unswept>>

BootNext ==
    \/ \E ok \in BOOLEAN : ConnectDB(ok)
    \/ RetryTimer
    \/ Listen
    \/ Next

BootSpec == BootInit /\ [][BootNext]_vars

\* ------------------------------------------- the cleanup timer keeps firing
\* the instants of Spec and one a cleanup interval after the last of them
LiveInstants == Instants \cup {TriggerWindow + 1 + SweepInterval}

Tick == \E t \in LiveInstants : Advance(t)

\* the steps that create, read, age and delete tracker entries; submit and
\* list are left out: they change no expires and delete no entry, which is all
\* the cleanup looks at
LiveNext ==
    \/ Tick
    \/ \E r \in TriggerRequests : Trigger(r[1], r[2])
    \/ \E r \in StatusRequests : Status(r[1], r[2])
    \/ Sweep
    \/ Turn

\* setInterval fires its callback again and again, whatever else is served;
\* every callback returns; the clock moves on
LiveSpec ==
    Init /\ [][LiveNext]_vars /\ SF_vars(Sweep) /\ WF_vars(Turn) /\ SF_vars(Tick)

\* ------------------------------------------------------- step vocabulary
\* the synchronous part of submit went past its checks for device d
SubmitAccepted(d) ==
    /\ running' = "submit"
    /\ Len(pending') = Len(pending) + 1
    /\ pending'[Len(pending')].deviceId = d

\* the synchronous part of list went past its check for device d
ListAccepted(d) ==
    /\ running' = "list"
    /\ Len(pending') = Len(pending) + 1
    /\ pending'[Len(pending')].deviceId = d

SubmitNotActiveAnswered(d) ==
    running' = "submit" /\ res'.status = 403 /\ res'.req.body.deviceId = d

ListNotActiveAnswered(d) ==
    running' = "list" /\ res'.status = 403 /\ Param(res'.req.path, ListPrefix) = d

StatusAnswered(d) ==
    running' = "status" /\ res'.status = 200 /\ Param(res'.req.path, StatusPrefix) = d

\* a submit request with the matching key, the three fields and in-range coordinates
WellFormedSubmit(req) ==
    /\ req.route = "submit"
    /\ req.key = ApiKey
    /\ DOMAIN req.body = {"deviceId", "latitude", "longitude"}
    /\ req.body.latitude >= -90 /\ req.body.latitude <= 90
    /\ req.body.longitude >= -180 /\ req.body.longitude <= 180

\* device d has an entry whose window is open: triggered and expiresAt > now
WindowOpen(d) ==
    d \in DOMAIN deviceStates /\ deviceStates[d].triggered /\ deviceStates[d].expires > now

\* ------------------------------------------------------------------ C1
\* C1: for the entry of device d (expiring at t+W), every activity check made at
\* a time < t+W reports active and every check made at a time >= t+W reports
\* inactive, in all three handlers: status flag, submit and list authorisation.
C1_ChecksAgreeOnWindow ==
    [][\A d \in DOMAIN deviceStates :
          /\ StatusAnswered(d) => (res'.body.triggered = (now < deviceStates[d].expires))
          /\ SubmitAccepted(d) => now < deviceStates[d].expires
          /\ SubmitNotActiveAnswered(d) => now >= deviceStates[d].expires
          /\ ListAccepted(d) => now < deviceStates[d].expires
          /\ ListNotActiveAnswered(d) => now >= deviceStates[d].expires]_vars

\* ------------------------------------------------------------------ C2
\* C2: a valid trigger of d at time t, from any prior state, is answered 200 and
\* leaves d's entry {triggered, expires = t + W, lastActive = t}; the expiresIn
\* it returns is the W applied, and d is active at once for all three handlers.
C2_TriggerResetsWindow ==
    [][(running' = "trigger" /\ res'.req.key = ApiKey /\ Has(res'.req.body, "deviceId")) =>
          LET d == res'.req.body.deviceId IN
          /\ res'.status = 200
          /\ d \in DOMAIN deviceStates'
          /\ deviceStates'[d].triggered
          /\ deviceStates'[d].lastActive = now
          /\ deviceStates'[d].expires = now + 30000000
          /\ res'.body.expiresIn = deviceStates'[d].expires - now
          /\ StatusBody(deviceStates', d, now').triggered
          /\ ~SubmitNotActive(deviceStates', d, now')
          /\ ~ListNotActive(deviceStates', d, now')
          /\ \A x \in DOMAIN deviceStates : x # d => deviceStates'[x] = deviceStates[x]]_vars

\* a re-trigger of a device whose previous window was still open: a handler in
\* flight still holds the replaced window
C2_Witness ==
    /\ running = "trigger"
    /\ res.status = 200
    /\ \E i \in 1..Len(pending) :
          /\ pending[i].deviceId = res.req.body.deviceId
          /\ pending[i].expires > now
          /\ pending[i].expires # deviceStates[res.req.body.deviceId].expires

\* ------------------------------------------------------------------ C3
\* C3: a well-formed submit for a device with no open window (never triggered,
\* lapsed, or removed by the cleanup) is rejected with 403 DEVICE_NOT_ACTIVE; it
\* starts no write and leaves the tracker unchanged.
C3_NoWindowNoSubmit ==
    [][\A d \in DeviceIds :
          ~WindowOpen(d) =>
              /\ ~SubmitAccepted(d)
              /\ (running' = "submit" /\ WellFormedSubmit(res'.req) /\ res'.req.body.deviceId = d)
                    => /\ res'.status = 403
                       /\ res'.body.code = "DEVICE_NOT_ACTIVE"
                       /\ UNCHANGED <<deviceStates, store, pending>>]_vars

\* ------------------------------------------------------------------ C4
\* the continuation of a submit ran in this step
SubmitContinued == running' = "submitSettled"

\* C4 as claimed: an accepted submit always persists exactly one record and
\* answers 201.
C4_AlwaysPersists ==
    [][SubmitContinued => (res'.status = 201 /\ Len(store') = Len(store) + 1)]_vars

\* C4 as amended: a well-formed submit for a device whose window is open is never
\* rejected; when its write settles it either answers 201 and appends exactly one
\* record carrying the request's deviceId, latitude and longitude, or (the write
\* failed) answers 500 and persists nothing; no step changes the store otherwise.
C4_PersistsOneOrFails ==
    [][/\ \A d \in DeviceIds :
             (WindowOpen(d) /\ running' = "submit" /\ WellFormedSubmit(res'.req))
                => res'.req.body.deviceId # d
       /\ SubmitContinued =>
             \/ /\ res'.status = 201
                /\ Len(store') = Len(store) + 1
                /\ SubSeq(store', 1, Len(store)) = store
                /\ store'[Len(store')].deviceId = res'.req.body.deviceId
                /\ store'[Len(store')].latitude = res'.req.body.latitude
                /\ store'[Len(store')].longitude = res'.req.body.longitude
                /\ res'.body.deviceId = res'.req.body.deviceId
                /\ res'.body.latitude = res'.req.body.latitude
                /\ res'.body.longitude = res'.req.body.longitude
             \/ /\ res'.status = 500
                /\ store' = store
       /\ ~SubmitContinued => store' = store]_vars

\* a 201 whose record joined an earlier one
C4_Witness ==
    /\ running = "submitSettled"
    /\ res.status = 201
    /\ Len(store) = 2
    /\ store[2].timestamp = res.body.timestamp

\* ------------------------------------------------------------------ C5
\* C5: a submit with the three fields and |latitude| > 90 or |longitude| > 180
\* is answered 400 INVALID_COORDINATES whatever the state of the device; it
\* starts no write and leaves the tracker (lastActive included) unchanged.
C5_InvalidCoordinatesRejected ==
    [][(/\ running' = "submit"
        /\ res'.req.key = ApiKey
        /\ DOMAIN res'.req.body = {"deviceId", "latitude", "longitude"}
        /\ \/ res'.req.body.latitude > 90 \/ res'.req.body.latitude < -90
           \/ res'.req.body.longitude > 180 \/ res'.req.body.longitude < -180)
          => /\ res'.status = 400
             /\ res'.body.code = "INVALID_COORDINATES"
             /\ UNCHANGED <<deviceStates, store, pending>>]_vars

\* out-of-range coordinates sent for a device whose window is open
C5_Witness ==
    /\ running = "submit"
    /\ res.status = 400
    /\ res.body.code = "INVALID_COORDINATES"
    /\ WindowOpen(res.req.body.deviceId)
    /\ res.req.body.latitude < -90

\* ------------------------------------------------------------------ C6
\* C6: a request to an /api path that does not contain '/status', whose key is
\* absent or wrong, is answered 401 and has no effect: no handler runs, the
\* tracker is unchanged and no store operation is started; /health and the
\* status route are served without the key.
C6_KeyRequired ==
    [][/\ (/\ res'.status # 0
           /\ StartsWith(res'.req.path, ApiPrefix)
           /\ ~Includes(res'.req.path, StatusNeedle)
           /\ res'.req.key # ApiKey)
             => (res'.status = 401 /\ UNCHANGED <<deviceStates, store, pending>>)
       /\ Len(pending') > Len(pending)
             => \/ pending'[Len(pending')].req.key = ApiKey
                \/ Includes(pending'[Len(pending')].req.path, StatusNeedle)
       /\ (running' \in {"health", "status"} /\ res'.req.key # ApiKey) => res'.status = 200]_vars

\* a submit without the key for a device whose window is open
C6_Witness ==
    /\ running = "submit"
    /\ res.status = 401
    /\ res.req.key = AbsentKey
    /\ WindowOpen(res.req.body.deviceId)

\* ------------------------------------------------------------------ C7
\* C7: a cleanup run at time T removes exactly the entries with expires < T and
\* leaves every entry with expires >= T (expires = T included) with its fields
\* unchanged; its counter equals the number of entries removed; the store and
\* the handlers in flight are not touched.
C7_SweepRemovesExpired ==
    [][running' = "cleanup" =>
          /\ DOMAIN deviceStates' = {d \in DOMAIN deviceStates : deviceStates[d].expires >= now}
          /\ \A d \in DOMAIN deviceStates' : deviceStates'[d] = deviceStates[d]
          /\ cleanedCount' = Cardinality((DOMAIN deviceStates) \ (DOMAIN deviceStates'))
          /\ cleanedCount' = Cardinality({d \in DOMAIN deviceStates : deviceStates[d].expires < now})
          /\ UNCHANGED <<store, pending, now>>]_vars

\* a run that removed one entry and kept another that expires at this instant
C7_Witness ==
    /\ running = "cleanup"
    /\ cleanedCount = 1
    /\ \E d \in DOMAIN deviceStates : deviceStates[d].expires = now
    /\ \E d \in DOMAIN unswept : d \notin DOMAIN deviceStates /\ unswept[d].expires < now

\* ------------------------------------------------------------------ C8
\* C8: the authorisation verdict of submit and of list for every device is the
\* one the same requests would get had the cleanup never run: the table and the
\* never-swept table give the same verdict at every instant.
C8_SweepIndependent ==
    \A d \in DeviceIds :
        /\ SubmitNotActive(deviceStates, d, now) = SubmitNotActive(unswept, d, now)
        /\ ListNotActive(deviceStates, d, now) = ListNotActive(unswept, d, now)
        /\ d \in DOMAIN deviceStates => deviceStates[d] = unswept[d]

\* a submit rejected for a device whose entry the cleanup removed, while the
\* cleanup kept the entry of a device that is still accepted
C8_Witness ==
    /\ running = "submit"
    /\ res.status = 403
    /\ res.req.body.deviceId \in DOMAIN unswept
    /\ res.req.body.deviceId \notin DOMAIN deviceStates
    /\ \E d \in DOMAIN deviceStates : deviceStates[d].expires = now

\* ------------------------------------------------------------------ C9
\* C9 as claimed: the status response for a device is the one it would be had
\* the cleanup not removed the entry (flag, remaining time, lastActive, code).
C9_StatusSameAfterSweep ==
    (running = "status" /\ res.status = 200)
        => res.body = StatusBody(unswept, Param(res.req.path, StatusPrefix), now)

\* C9 as amended: the active flag of the status response is the one it would be
\* had the cleanup not removed the entry, and no positive remaining time is ever
\* reported for a removed entry; the code and the presence of expiresIn and
\* lastActive differ (DEVICE_INACTIVE without them once removed, DEVICE_EXPIRED
\* with expiresIn = 0 and lastActive before).
C9_StatusFlagSameAfterSweep ==
    (running = "status" /\ res.status = 200) =>
        LET d == Param(res.req.path, StatusPrefix)
            kept == StatusBody(unswept, d, now)
        IN
        /\ res.body.triggered = kept.triggered
        /\ (d \in DOMAIN unswept /\ d \notin DOMAIN deviceStates) =>
              /\ res.body.code = "DEVICE_INACTIVE"
              /\ DOMAIN res.body = {"triggered", "message", "code"}
              /\ kept.code = "DEVICE_EXPIRED"
              /\ kept.expiresIn = 0
        /\ d \in DOMAIN deviceStates => res.body = kept

\* status asked for a device whose expired entry the cleanup has removed
C9_Witness ==
    /\ running = "status"
    /\ res.status = 200
    /\ Param(res.req.path, StatusPrefix) \in DOMAIN unswept
    /\ Param(res.req.path, StatusPrefix) \notin DOMAIN deviceStates

\* ----------------------------------------------------------------- C10
NeverTriggered(d) == d \notin DOMAIN unswept

\* C10 as claimed: status of a never-triggered device answers 200 with
\* triggered = false and expiresIn = 0.
C10_UnknownReportsZero ==
    (running = "status" /\ NeverTriggered(Param(res.req.path, StatusPrefix))) =>
        /\ res.status = 200
        /\ res.body.triggered = FALSE
        /\ Has(res.body, "expiresIn")
        /\ res.body.expiresIn = 0

\* C10 as amended: status of a never-triggered device answers 200 with
\* triggered = false and code DEVICE_INACTIVE and carries no expiresIn (nor
\* lastActive) field; submit and list for it are never authorised: a submit or
\* list that reaches the activity check is answered 403 and no handler is in
\* flight for it.
C10_UnknownInactive ==
    /\ (running = "status" /\ NeverTriggered(Param(res.req.path, StatusPrefix))) =>
          /\ res.status = 200
          /\ res.body.triggered = FALSE
          /\ res.body.code = "DEVICE_INACTIVE"
          /\ ~Has(res.body, "expiresIn")
          /\ ~Has(res.body, "lastActive")
    /\ \A i \in 1..Len(pending) : ~NeverTriggered(pending[i].deviceId)
    /\ (running = "submit" /\ WellFormedSubmit(res.req) /\ NeverTriggered(res.req.body.deviceId))
          => res.status = 403
    /\ (running = "list" /\ res.status # 0 /\ ~Unauthorized(res.req)
            /\ NeverTriggered(Param(res.req.path, ListPrefix)))
          => res.status = 403

\* status asked for a never-triggered device while another device is active
C10_Witness ==
    /\ running = "status"
    /\ res.status = 200
    /\ NeverTriggered(Param(res.req.path, StatusPrefix))
    /\ \E d \in DOMAIN deviceStates : deviceStates[d].expires > now

\* ----------------------------------------------------------------- C11
\* the list handler resumed after its query for device d and sent a response
ListAnswered(d) ==
    running = "listSettled" /\ Param(res.req.path, ListPrefix) = d

\* C11: a list for a device whose window is open and that has no stored record
\* is answered 404 NO_DATA (never 200 with an empty list) once its query
\* completes, and a list for a device without an open window is answered 403
\* DEVICE_NOT_ACTIVE, never taken on, whether or not records of it are stored.
C11_ListEmptyOrInactive ==
    [][/\ \A d \in DeviceIds :
            /\ (ListAnswered(d)' /\ res'.status = 200) => res'.body.count > 0
            /\ (ListAnswered(d)' /\ res'.status # 500 /\ Len(Find(store, d)) = 0) =>
                   (res'.status = 404 /\ res'.body.code = "NO_DATA")
            /\ ListAccepted(d) => WindowOpen(d)
       /\ (running' = "list" /\ res'.req.key = ApiKey
              /\ ~WindowOpen(Param(res'.req.path, ListPrefix))) =>
              (res'.status = 403 /\ res'.body.code = "DEVICE_NOT_ACTIVE")]_vars

C14_SubmitTouchesOnlyLastActive ==
    [][running' \in {"submit", "submitSettled"} =>
          /\ DOMAIN deviceStates' = DOMAIN deviceStates
          /\ \A d \in DOMAIN deviceStates :
                /\ deviceStates'[d].triggered = deviceStates[d].triggered
                /\ deviceStates'[d].expires = deviceStates[d].expires
                /\ deviceStates'[d].lastActive # deviceStates[d].lastActive =>
                      /\ SubmitAccepted(d)
                      /\ deviceStates'[d].lastActive = now
                      /\ WindowOpen(d)]_vars

\* ----------------------------------------------------------------- C15
\* C15: status and list, in every branch and in both halves of the list
\* handler, leave the tracker as it was and write nothing to the store.
C15_StatusListReadOnly ==
    [][running' \in {"status", "list", "listSettled"} =>
          (deviceStates' = deviceStates /\ store' = store)]_vars

\* a list answered with stored records while the tracker holds an expired entry
C15_Witness ==
    /\ running = "listSettled" /\ res.status = 200
    /\ \E d \in DOMAIN deviceStates : deviceStates[d].expires < now

\* ----------------------------------------------------------------- C17
\* the submit or list handler of device d resumed and answered with success
AnsweredWithRemainingTime(d) ==
    \/ running = "submitSettled" /\ res.status = 201 /\ res.req.body.deviceId = d
    \/ running = "listSettled" /\ res.status = 200 /\ Param(res.req.path, ListPrefix) = d

\* C17: the remainingTime of every successful submit or list response for d is
\* expires - now of the entry the tracker holds for d when the response is
\* sent, whatever ran while the store operation was pending.
C17_RemainingTimeOfCurrentEntry ==
    \A d \in DeviceIds :
        AnsweredWithRemainingTime(d) =>
            /\ d \in DOMAIN deviceStates
            /\ res.body.remainingTime = deviceStates[d].expires - now

\* ----------------------------------------------------------------- C18
\* C18: every remaining-time value sent is >= 0: expiresIn of status and
\* remainingTime of submit and list, also when the window's expiry passes
\* between the handler's check and its response.
C18_RemainingTimeNonNegative ==
    /\ (running = "status" /\ res.status = 200 /\ Has(res.body, "expiresIn")) =>
           res.body.expiresIn >= 0
    /\ (running \in {"submitSettled", "listSettled"} /\ Has(res.body, "remainingTime")) =>
           res.body.remainingTime >= 0

\* ----------------------------------------------------------------- C20
\* C20: without the matching API key no protected operation is performed, for
\* every deviceId, 'status' and ids beginning with it included: a list is never
\* answered with stored coordinates, and a trigger or a submit changes neither
\* the tracker nor the store and starts no save.
C20_NoKeyNoProtectedOperation ==
    [][/\ (running' \in {"trigger", "submit"} /\ res' # NoRes /\ res'.req.key # ApiKey) =>
              (deviceStates' = deviceStates /\ store' = store /\ pending' = pending)
       /\ (running' = "submit" /\ Len(pending') > Len(pending)) =>
              pending'[Len(pending')].req.key = ApiKey
       /\ (running' = "submitSettled" /\ store' # store) => res'.req.key = ApiKey
       /\ (running' = "listSettled" /\ res'.status = 200) => res'.req.key = ApiKey]_vars

\* ----------------------------------------------------------------- C19
\* the record r of device d lies in the window that expires at e: d has been
\* triggered, the trigger that opened the window was at t = e - W, and
\* t <= r.timestamp <= t + W
WithinWindow(r, e) ==
    /\ r.deviceId \in DOMAIN unswept
    /\ e - TriggerWindow >= 0
    /\ e - TriggerWindow <= r.timestamp
    /\ r.timestamp <= e
    /\ e <= unswept[r.deviceId].expires

\* C19: every stored record r was accepted under a window of its own device:
\* tracker entries are only made by a trigger at t and then expire at t + W; a
\* submit is taken on only with a record stamped now, for the device whose
\* entry it read, with t <= now <= t + W; the record waits unchanged for its
\* save, and the store only grows by such a record.  Hence every stored record
\* belongs to a triggered device and is not younger than that device's expiry.
C19_RecordsWithinWindow ==
    /\ [][\A d \in DOMAIN deviceStates' :
             (d \notin DOMAIN deviceStates
                 \/ deviceStates'[d].expires # deviceStates[d].expires) =>
                 (running' = "trigger" /\ deviceStates'[d].expires = now + TriggerWindow
                     /\ unswept'[d] = deviceStates'[d])]_vars
    /\ [][\A d \in DeviceIds :
             SubmitAccepted(d) =>
                 LET p == pending'[Len(pending')]
                 IN  /\ p.doc.deviceId = d /\ p.doc.timestamp = now
                     /\ d \in DOMAIN deviceStates /\ p.expires = deviceStates[d].expires
                     /\ WithinWindow(p.doc, p.expires)]_vars
    /\ [](\A i \in 1..Len(pending) :
             pending[i].req.route = "submit" => WithinWindow(pending[i].doc, pending[i].expires))
    /\ [][store' # store =>
             \E i \in 1..Len(pending) :
                 pending[i].req.route = "submit" /\ store' = Append(store, pending[i].doc)]_vars
    /\ [](\A i \in 1..Len(store) :
             /\ store[i].deviceId \in DOMAIN unswept
             /\ store[i].timestamp <= unswept[store[i].deviceId].expires)

\* a record stamped at the very expiry of its window is stored, next to one of
\* a window that a later trigger has replaced
C19_Witness ==
    /\ running = "submitSettled" /\ res.status = 201
    /\ res.body.timestamp = TriggerWindow + 1 /\ res.body.remainingTime = 0
    /\ \E i \in 1..Len(store) :
          store[i].timestamp + TriggerWindow < unswept[store[i].deviceId].expires

\* ----------------------------------------------------------------- C16
\* C16: connectDB makes at most 1 + retries attempts; when all of them fail it
\* has made exactly 1 + 5, each retry after one more sleep of the interval, and
\* then the process exits and nothing runs any more; the server listens, and a
\* callback runs, only after an attempt has succeeded.
C16_BoundedRetryThenListen ==
    /\ [](boot.attempts <= ConnectRetries + 1)
    /\ [](boot.phase = "connecting" => boot.waited = boot.attempts * ConnectInterval)
    /\ [](boot.phase = "exited" =>
             /\ boot.attempts = ConnectRetries + 1
             /\ boot.waited = ConnectRetries * ConnectInterval
             /\ ~boot.connected)
    /\ [][boot.phase # "exited"]_vars
    /\ [](boot.phase = "listening" => boot.connected)
    /\ [][(boot'.phase = "listening" /\ boot.phase # "listening") =>
             (boot.phase = "connected" /\ boot.connected)]_vars
    /\ [](running # "idle" => boot.phase = "listening")

\* all six attempts have failed and the process has exited
C16_Witness ==
    boot.phase = "exited" /\ boot.attempts = 6 /\ boot.waited = 25000

\* ----------------------------------------------------------------- C13
\* device d has an entry whose window has expired: expires <= now
Expired(d) ==
    d \in DOMAIN deviceStates /\ deviceStates[d].expires <= now

\* C13: while the cleanup timer keeps firing and the clock advances, every
\* entry whose window has expired is eventually removed unless it is triggered
\* again; this includes the entry that expires at the very time of a cleanup
\* run, which that run keeps and a later run removes.
C13_ExpiredEventuallyRemoved ==
    \A d \in DeviceIds : Expired(d) ~> ~Expired(d)

\* a cleanup run after the last instant has removed an entry that expired at
\* that instant, where a cleanup run keeps it
C13_Witness ==
    /\ running = "cleanup" /\ cleanedCount > 0 /\ now > TriggerWindow + 1
    /\ \E d \in DOMAIN unswept :
          d \notin DOMAIN deviceStates /\ unswept[d].expires = TriggerWindow + 1

====
